---- MODULE Spec2Model ----
(***************************************************************************)
(* Booking service (BookingService + RedisLock): createBooking,            *)
(* cancelBooking and rescheduleBooking issued by concurrent callers        *)
(* against one relational store (Prisma/PostgreSQL, READ COMMITTED) and    *)
(* one coordination store (Redis).                                         *)
(*                                                                         *)
(* One action is one round trip to a store (one awaited statement): the    *)
(* code between two awaits touches only the call's own locals and is part  *)
(* of the step that follows the await.                                     *)
(***************************************************************************)
EXTENDS Integers, Sequences, FiniteSets, TLC

(* ---------------------------------------------------------------------- *)
(* Bounds of the model                                                     *)
(* ---------------------------------------------------------------------- *)
\* number of service calls issued in one behaviour
MaxCalls == 3
\* number of calls in flight at the same time
MaxInFlight == 2
\* instants are 0..MaxTime; an interval is [s, e) with s < e
MaxTime == 3
\* user ids are 1..NumUsers
NumUsers == 2
\* the same two for the concurrent callers of Spec
ConcMaxTime == 2
ConcNumUsers == 1
\* the last instant for the callers of SpecFault
FaultMaxTime == 1
\* the clock (Date.now()) takes the values 0..MaxClock
MaxClock == 1
\* SET NX attempts of one acquire (this.maxRetries, 100 in the source)
MaxRetries == 2
\* statements the relational store fails in one behaviour
MaxFaults == 1
\* slot durations asked of getAvailableSlots are 1..MaxSlotDuration instants
MaxSlotDuration == 2
\* extend() calls and release() calls made on one lock handle
MaxHandleCalls == 2

Users == 1..NumUsers
Times == 0..MaxTime
Keys == 1..MaxCalls
BookingIds == 1..MaxCalls
\* an id no booking has (ids are uuids: a caller cannot guess a future one)
NoSuchId == MaxCalls + 1

\* "no value": null / undefined of the source
Nil == 0
NoLease == [value |-> -1, at |-> -1]

\* bookingData.status as the caller gives it ("undefined": not given)
CallerStatus == {"undefined", "PENDING"}
ActiveStatus == {"PENDING", "CONFIRMED"}

VARIABLES
    bookings,   \* table Booking: sequence of rows, the row's id is its index
    auditLog,   \* table BookingAuditLog: sequence of records
    redis,      \* coordination store: lock key -> lease (value, time it was set)
    calls,      \* the service calls issued so far, in the order they started
    now,        \* Date.now()
    faults      \* number of statements the relational store has failed

vars == <<bookings, auditLog, redis, calls, now, faults>>

(* ---------------------------------------------------------------------- *)
(* Lock keys                                                               *)
(* ---------------------------------------------------------------------- *)
\* mutant: the lock key leaves out the start of the interval
CreateLockKeyPerUser(userId, startTime) == <<"booking", userId, 0>>

CreateLockKey(userId, startTime) == <<"booking", userId, startTime>>
CancelLockKey(bookingId) == <<"booking:cancel", bookingId, 0>>
RescheduleLockKey(bookingId) == <<"booking:reschedule", bookingId, 0>>

LockKeys ==
    {CreateLockKey(u, s) : u \in Users, s \in Times}
    \cup {CancelLockKey(b) : b \in BookingIds \cup {NoSuchId}}
    \cup {RescheduleLockKey(b) : b \in BookingIds \cup {NoSuchId}}

LockKeyOf(c) ==
    CASE c.op = "create" -> CreateLockKey(c.userId, c.startTime)
      [] c.op = "cancel" -> CancelLockKey(c.bookingId)
      [] c.op = "reschedule" -> RescheduleLockKey(c.bookingId)

(* ---------------------------------------------------------------------- *)
(* Queries of the relational store                                         *)
(* ---------------------------------------------------------------------- *)
RowIds == 1..Len(bookings)

\* mutant: the OR without its third clause
CreateOverlapWhereTwoClauses(row, startTime, endTime) ==
    \/ (row.startTime <= startTime /\ row.endTime > startTime)
    \/ (row.startTime < endTime /\ row.endTime >= endTime)

\* the OR of createBooking's findFirst: contains-start, contains-end, within
CreateOverlapWhere(row, startTime, endTime) ==
    \/ (row.startTime <= startTime /\ row.endTime > startTime)
    \/ (row.startTime < endTime /\ row.endTime >= endTime)
    \/ (row.startTime >= startTime /\ row.endTime <= endTime)

\* the OR of rescheduleBooking's findFirst: contains-start, contains-end
RescheduleOverlapWhere(row, newStartTime, newEndTime) ==
    \/ (row.startTime <= newStartTime /\ row.endTime > newStartTime)
    \/ (row.startTime < newEndTime /\ row.endTime >= newEndTime)

\* tx.booking.findFirst of _createBookingInTransaction: some row matches
CreateFindOverlapping(userId, startTime, endTime) ==
    \E b \in RowIds :
        /\ bookings[b].userId = userId
        /\ bookings[b].status \in ActiveStatus
        /\ CreateOverlapWhere(bookings[b], startTime, endTime)

\* mutant: the query has no `id: { not: bookingId }`
RescheduleFindOverlappingAnyId(bookingId, userId, newStartTime, newEndTime) ==
    \E b \in RowIds :
        /\ bookings[b].userId = userId
        /\ bookings[b].status \in ActiveStatus
        /\ RescheduleOverlapWhere(bookings[b], newStartTime, newEndTime)

\* tx.booking.findFirst of rescheduleBooking: some row other than bookingId matches
RescheduleFindOverlapping(bookingId, userId, newStartTime, newEndTime) ==
    \E b \in RowIds :
        /\ bookings[b].userId = userId
        /\ b # bookingId
        /\ bookings[b].status \in ActiveStatus
        /\ RescheduleOverlapWhere(bookings[b], newStartTime, newEndTime)

\* mutant: the lookup never hits
CheckIdempotencyMiss(idempotencyKey) == Nil

\* mutant: the lookup returns the first booking of the table, whatever its key
CheckIdempotencyFirst(idempotencyKey) == IF RowIds # {} THEN 1 ELSE Nil

\* _checkIdempotency: findUnique({ idempotencyKey }), Nil when there is none
CheckIdempotency(idempotencyKey) ==
    IF \E b \in RowIds : bookings[b].idempotencyKey = idempotencyKey
    THEN CHOOSE b \in RowIds : bookings[b].idempotencyKey = idempotencyKey
    ELSE Nil

\* mutant: the store does not enforce idempotencyKey @unique
ViolatesKeyUniqueNever(idempotencyKey) == FALSE

\* idempotencyKey @unique
ViolatesKeyUnique(idempotencyKey) ==
    \E b \in RowIds : bookings[b].idempotencyKey = idempotencyKey

\* @@unique([startTime, endTime, userId]), over the rows other than `self`
ViolatesSlotUnique(self, userId, startTime, endTime) ==
    \E b \in RowIds :
        /\ b # self
        /\ bookings[b].startTime = startTime
        /\ bookings[b].endTime = endTime
        /\ bookings[b].userId = userId

\* mutant: the status the caller gave is not looked at
NewBookingConfirmed(c) ==
    [userId |-> c.userId,
     startTime |-> c.startTime,
     endTime |-> c.endTime,
     status |-> "CONFIRMED",
     idempotencyKey |-> c.idempotencyKey,
     version |-> 1]

\* data of tx.booking.create
NewBooking(c) ==
    [userId |-> c.userId,
     startTime |-> c.startTime,
     endTime |-> c.endTime,
     status |-> IF c.status # "undefined" THEN c.status ELSE "CONFIRMED",
     idempotencyKey |-> c.idempotencyKey,
     version |-> 1]

\* mutant: the update also clears the idempotency key of the row
CancelUpdateClearsKey(row) == [row EXCEPT !.status = "CANCELLED", !.idempotencyKey = Nil]

\* data of cancelBooking's tx.booking.update
CancelUpdate(row) == [row EXCEPT !.status = "CANCELLED"]

\* mutant: the update writes startTime only
RescheduleUpdateStartOnly(row, newStartTime, newEndTime) ==
    [row EXCEPT !.startTime = newStartTime]

\* data of rescheduleBooking's tx.booking.update
RescheduleUpdate(row, newStartTime, newEndTime) ==
    [row EXCEPT !.startTime = newStartTime, !.endTime = newEndTime]

\* mutant: P2002 is rethrown as it is
CreateCatchRethrow(code) == code

\* mutant: P2002 is reported as OVERLAP_CONFLICT
CreateCatchOverlap(code) == IF code = "P2002" THEN "OVERLAP_CONFLICT" ELSE code

\* the catch of createBooking: P2002 becomes TIME_SLOT_CONFLICT, the rest is rethrown
CreateCatch(code) == IF code = "P2002" THEN "TIME_SLOT_CONFLICT" ELSE code

\* mutant: the comparison is inverted
ReleaseOwnsNot(currentValue, lockValue) == currentValue # lockValue

\* RedisLock.release: currentValue === lockValue
ReleaseOwns(currentValue, lockValue) == currentValue = lockValue

(* ---------------------------------------------------------------------- *)
(* getAvailableSlots                                                       *)
(* ---------------------------------------------------------------------- *)
\* prisma.booking.findMany: the active bookings of the user whose startTime
\* lies between startDate and endDate (both included)
SlotsFindMany(userId, startDate, endDate) ==
    {b \in RowIds : /\ bookings[b].userId = userId
                    /\ bookings[b].status \in ActiveStatus
                    /\ bookings[b].startTime >= startDate
                    /\ bookings[b].startTime <= endDate}

\* the starts of the slots the loop visits: startDate, startDate + slotDuration,
\* ... while current < end
CandidateSlots(startDate, endDate, slotDuration) ==
    {current \in startDate..(endDate - 1) : (current - startDate) % slotDuration = 0}

\* bookings.some(...): a booking that was found overlaps [slotStart, slotEnd)
HasConflict(found, slotStart, slotEnd) ==
    \E b \in found : slotStart < bookings[b].endTime /\ slotEnd > bookings[b].startTime

\* the starts of the slots getAvailableSlots returns
GetAvailableSlots(userId, startDate, endDate, slotDuration) ==
    {slotStart \in CandidateSlots(startDate, endDate, slotDuration) :
        ~HasConflict(SlotsFindMany(userId, startDate, endDate),
                     slotStart, slotStart + slotDuration)}

\* slots.push({startTime: slotStart, endTime: slotEnd, available: true}): the
\* slots getAvailableSlots returns
ReturnedSlots(userId, startDate, endDate, slotDuration) ==
    {[startTime |-> slotStart, endTime |-> slotStart + slotDuration] :
        slotStart \in GetAvailableSlots(userId, startDate, endDate, slotDuration)}

(* ---------------------------------------------------------------------- *)
(* Calls                                                                   *)
(* ---------------------------------------------------------------------- *)
\* pc: "acquire" (entry of RedisLock.acquire), "set" (SET NX), "txFind",
\* "txWrite", "audit", "release" (GET of release), "del" (DEL of release), "done".
\* result "NONE" while the outcome is open; "OK" with resId the booking returned.
NewCall(op, userId, startTime, endTime, status, idempotencyKey, bookingId) ==
    [op |-> op, userId |-> userId, startTime |-> startTime, endTime |-> endTime,
     status |-> status, idempotencyKey |-> idempotencyKey, bookingId |-> bookingId,
     pc |-> "acquire", lockValue |-> -1, retries |-> 0,
     result |-> "NONE", resId |-> Nil]

CallIds == 1..Len(calls)

\* a call starts
Started(c) == Append(calls, c)

\* the calls in flight
InFlight == {q \in CallIds : calls[q].pc # "done"}

Init ==
    /\ bookings = <<>>
    /\ auditLog = <<>>
    /\ redis = [k \in LockKeys |-> NoLease]
    /\ calls = <<>>
    /\ now = 0
    /\ faults = 0

\* the call p with some of its fields changed
SetCall(p, c) == [calls EXCEPT ![p] = c]

\* the call returns or throws: its locals are gone
Return(c) == [c EXCEPT !.pc = "done", !.lockValue = -1, !.retries = 0]

\* mutant: an error in the critical section re-enters the transaction
ThrowRetry(c, code) == [c EXCEPT !.result = code, !.pc = "txFind"]

\* leaving the critical section with an error: the finally block runs next
Throw(c, code) == [c EXCEPT !.result = code, !.pc = "release"]

(* ---------------------------------------------------------------------- *)
(* createBooking                                                           *)
(* ---------------------------------------------------------------------- *)
\* the call arrives; Layer 1, _checkIdempotency: a hit is returned at once
StartCreate(userId, startTime, endTime, status, idempotencyKey) ==
    /\ Len(calls) < MaxCalls
    /\ LET existingIdempotent == CheckIdempotency(idempotencyKey)
           c == NewCall("create", userId, startTime, endTime, status, idempotencyKey, Nil)
       IN  calls' = Started(IF existingIdempotent # Nil
                            THEN Return([c EXCEPT !.result = "OK",
                                                  !.resId = existingIdempotent])
                            ELSE c)
    /\ UNCHANGED <<bookings, auditLog, redis, now, faults>>

\* entry of RedisLock.acquire: lockValue = instanceId:Date.now()
AcquireEntry(p) ==
    /\ calls[p].pc = "acquire"
    /\ calls' = SetCall(p, [calls[p] EXCEPT !.lockValue = now, !.pc = "set"])
    /\ UNCHANGED <<bookings, auditLog, redis, now, faults>>

\* tx.booking.findFirst of _createBookingInTransaction
CreateTxFind(p) ==
    /\ calls[p].op = "create"
    /\ calls[p].pc = "txFind"
    /\ LET c == calls[p] IN
       calls' = SetCall(p,
           IF CreateFindOverlapping(c.userId, c.startTime, c.endTime)
           THEN Throw(c, CreateCatch("OVERLAP_CONFLICT"))
           ELSE [c EXCEPT !.pc = "txWrite"])
    /\ UNCHANGED <<bookings, auditLog, redis, now, faults>>

\* tx.booking.create and the commit
CreateTxWrite(p) ==
    /\ calls[p].op = "create"
    /\ calls[p].pc = "txWrite"
    /\ LET c == calls[p] IN
       IF \/ ViolatesKeyUnique(c.idempotencyKey)
          \/ ViolatesSlotUnique(Nil, c.userId, c.startTime, c.endTime)
       THEN /\ calls' = SetCall(p, Throw(c, CreateCatch("P2002")))
            /\ UNCHANGED bookings
       ELSE /\ bookings' = Append(bookings, NewBooking(c))
            /\ calls' = SetCall(p, [c EXCEPT !.resId = Len(bookings) + 1, !.pc = "audit"])
    /\ UNCHANGED <<auditLog, redis, now, faults>>

(* ---------------------------------------------------------------------- *)
(* cancelBooking                                                           *)
(* ---------------------------------------------------------------------- *)
\* the call arrives and enters RedisLock.acquire
StartCancel(bookingId, userId) ==
    /\ Len(calls) < MaxCalls
    /\ calls' = Started([NewCall("cancel", userId, Nil, Nil, "undefined", Nil, bookingId)
                            EXCEPT !.lockValue = now, !.pc = "set"])
    /\ UNCHANGED <<bookings, auditLog, redis, now, faults>>

\* mutant: the status of the row is checked before its owner
CancelCheckStatusFirst(bookingId, userId) ==
    IF bookingId \notin RowIds THEN "NOT_FOUND"
    ELSE IF bookings[bookingId].status = "CANCELLED" THEN "ALREADY_CANCELLED"
    ELSE IF bookings[bookingId].userId # userId THEN "UNAUTHORIZED"
    ELSE "NONE"

\* mutant: the status of the row is not looked at
CancelCheckNoStatus(bookingId, userId) ==
    IF bookingId \notin RowIds THEN "NOT_FOUND"
    ELSE IF bookings[bookingId].userId # userId THEN "UNAUTHORIZED"
    ELSE "NONE"

\* the checks of cancelBooking on the row findUnique returned, Nil when they pass
CancelCheck(bookingId, userId) ==
    IF bookingId \notin RowIds THEN "NOT_FOUND"
    ELSE IF bookings[bookingId].userId # userId THEN "UNAUTHORIZED"
    ELSE IF bookings[bookingId].status = "CANCELLED" THEN "ALREADY_CANCELLED"
    ELSE "NONE"

\* tx.booking.findUnique and the checks on the row
CancelTxFind(p) ==
    /\ calls[p].op = "cancel"
    /\ calls[p].pc = "txFind"
    /\ LET c == calls[p]
           error == CancelCheck(c.bookingId, c.userId)
       IN  calls' = SetCall(p, IF error # "NONE" THEN Throw(c, error)
                               ELSE [c EXCEPT !.pc = "txWrite"])
    /\ UNCHANGED <<bookings, auditLog, redis, now, faults>>

\* tx.booking.update({ status: 'CANCELLED' }) and the commit
CancelTxWrite(p) ==
    /\ calls[p].op = "cancel"
    /\ calls[p].pc = "txWrite"
    /\ LET c == calls[p] IN
       /\ bookings' = [bookings EXCEPT ![c.bookingId] = CancelUpdate(@)]
       /\ calls' = SetCall(p, [c EXCEPT !.resId = c.bookingId, !.pc = "audit"])
    /\ UNCHANGED <<auditLog, redis, now, faults>>

(* ---------------------------------------------------------------------- *)
(* rescheduleBooking                                                       *)
(* ---------------------------------------------------------------------- *)
\* the call arrives and enters RedisLock.acquire
StartReschedule(bookingId, userId, newStartTime, newEndTime) ==
    /\ Len(calls) < MaxCalls
    /\ calls' = Started([NewCall("reschedule", userId, newStartTime, newEndTime,
                                 "undefined", Nil, bookingId)
                            EXCEPT !.lockValue = now, !.pc = "set"])
    /\ UNCHANGED <<bookings, auditLog, redis, now, faults>>

\* the checks of rescheduleBooking: the row, its owner, the overlap query
RescheduleCheck(bookingId, userId, newStartTime, newEndTime) ==
    IF bookingId \notin RowIds THEN "NOT_FOUND"
    ELSE IF bookings[bookingId].userId # userId THEN "UNAUTHORIZED"
    ELSE IF RescheduleFindOverlapping(bookingId, userId, newStartTime, newEndTime)
         THEN "TIME_SLOT_CONFLICT"
    ELSE "NONE"

\* tx.booking.findUnique, tx.booking.findFirst and the checks
RescheduleTxFind(p) ==
    /\ calls[p].op = "reschedule"
    /\ calls[p].pc = "txFind"
    /\ LET c == calls[p]
           error == RescheduleCheck(c.bookingId, c.userId, c.startTime, c.endTime)
       IN  calls' = SetCall(p, IF error # "NONE" THEN Throw(c, error)
                               ELSE [c EXCEPT !.pc = "txWrite"])
    /\ UNCHANGED <<bookings, auditLog, redis, now, faults>>

\* what rescheduleBooking does once its transaction has committed: the
\* arguments of _createAuditLog read `booking`, a const of the transaction
\* callback that is not in scope here
RescheduleAfterCommit(c) == Throw([c EXCEPT !.resId = c.bookingId], "ReferenceError")

\* tx.booking.update({ startTime, endTime }) and the commit
RescheduleTxWrite(p) ==
    /\ calls[p].op = "reschedule"
    /\ calls[p].pc = "txWrite"
    /\ LET c == calls[p]
           row == bookings[c.bookingId]
       IN  IF ViolatesSlotUnique(c.bookingId, row.userId, c.startTime, c.endTime)
           THEN /\ calls' = SetCall(p, Throw(c, "P2002"))
                /\ UNCHANGED bookings
           ELSE /\ bookings' = [bookings EXCEPT ![c.bookingId] =
                                   RescheduleUpdate(@, c.startTime, c.endTime)]
                /\ calls' = SetCall(p, RescheduleAfterCommit(c))
    /\ UNCHANGED <<auditLog, redis, now, faults>>

(* ---------------------------------------------------------------------- *)
(* Steps shared by the three operations                                    *)
(* ---------------------------------------------------------------------- *)
\* mutant: the loop of acquire starts over instead of returning null
LockConflictRetry(c) == [c EXCEPT !.retries = 0]

\* mutant: the call goes on without a handle
LockConflictProceeds(c) == [c EXCEPT !.pc = "txFind"]

\* the thrown LOCK_CONFLICT when acquire returned null
LockConflict(c) == Return([c EXCEPT !.result = "LOCK_CONFLICT"])

\* one iteration of the loop of RedisLock.acquire: SET key value NX PX ttl;
\* on failure retries++ (the pttl query and the sleep only delay the next one)
AcquireSet(p) ==
    /\ calls[p].pc = "set"
    /\ LET c == calls[p]
           lockKey == LockKeyOf(c)
       IN  IF redis[lockKey] = NoLease
           THEN /\ redis' = [redis EXCEPT ![lockKey] = [value |-> c.lockValue, at |-> now]]
                /\ calls' = SetCall(p, [c EXCEPT !.pc = "txFind"])
           ELSE /\ calls' = SetCall(p, IF c.retries + 1 < MaxRetries
                                       THEN [c EXCEPT !.retries = @ + 1]
                                       ELSE LockConflict([c EXCEPT !.retries = @ + 1]))
                /\ UNCHANGED redis
    /\ UNCHANGED <<bookings, auditLog, now, faults>>

\* bookingAuditLog.create of _createAuditLog; the call then returns the booking
AuditAction(c) == IF c.op = "create" THEN "CREATED" ELSE "CANCELLED"

CreateAuditLog(p) ==
    /\ calls[p].pc = "audit"
    /\ LET c == calls[p] IN
       /\ auditLog' = Append(auditLog, [bookingId |-> c.resId, action |-> AuditAction(c),
                                        userId |-> c.userId])
       /\ calls' = SetCall(p, [c EXCEPT !.result = "OK", !.pc = "release"])
    /\ UNCHANGED <<bookings, redis, now, faults>>

\* the relational store fails a statement: the open transaction rolls back
\* (at "audit" the transaction of the call has already committed)
StoreError(p) ==
    /\ calls[p].pc \in {"txFind", "txWrite", "audit"}
    /\ faults < MaxFaults
    /\ faults' = faults + 1
    /\ LET c == calls[p] IN
       calls' = SetCall(p, Throw(c, IF c.op = "create" THEN CreateCatch("STORE_ERROR")
                                    ELSE "STORE_ERROR"))
    /\ UNCHANGED <<bookings, auditLog, redis, now>>

\* finally: lock.release() -> RedisLock.release: GET, compared with lockValue
ReleaseGet(p) ==
    /\ calls[p].pc = "release"
    /\ LET c == calls[p]
           currentValue == redis[LockKeyOf(c)].value
       IN  calls' = SetCall(p, IF ReleaseOwns(currentValue, c.lockValue)
                               THEN [c EXCEPT !.pc = "del"]
                               ELSE Return(c))
    /\ UNCHANGED <<bookings, auditLog, redis, now, faults>>

\* RedisLock.release: DEL; the call returns or rethrows
ReleaseDel(p) ==
    /\ calls[p].pc = "del"
    /\ redis' = [redis EXCEPT ![LockKeyOf(calls[p])] = NoLease]
    /\ calls' = SetCall(p, Return(calls[p]))
    /\ UNCHANGED <<bookings, auditLog, now, faults>>

\* mutant: the catch of acquire swallows the error and acquire returns null
AcquireCatchNull(c) == LockConflict(c)

\* the catch of RedisLock.acquire logs the error of the client and rethrows it;
\* the caller awaits acquire outside its try block, so the call rejects with it
AcquireCatch(c) == Return([c EXCEPT !.result = "REDIS_ERROR"])

\* the coordination store is unreachable: client.set (or client.pttl) rejects
AcquireError(p) ==
    /\ calls[p].pc = "set"
    /\ faults < MaxFaults
    /\ faults' = faults + 1
    /\ calls' = SetCall(p, AcquireCatch(calls[p]))
    /\ UNCHANGED <<bookings, auditLog, redis, now>>

\* client.get or client.del of RedisLock.release rejects: release rethrows, the
\* finally block throws and the call rejects with that error; the lease stays
ReleaseError(p) ==
    /\ calls[p].pc \in {"release", "del"}
    /\ faults < MaxFaults
    /\ faults' = faults + 1
    /\ calls' = SetCall(p, Return([calls[p] EXCEPT !.result = "REDIS_ERROR"]))
    /\ UNCHANGED <<bookings, auditLog, redis, now>>

(* ---------------------------------------------------------------------- *)
(* Environment                                                             *)
(* ---------------------------------------------------------------------- *)
\* mutant: the lease has no ttl, the key stays until it is deleted
ExpireNoTtl(lockKey) ==
    /\ redis[lockKey] # NoLease
    /\ redis[lockKey].at < now
    /\ UNCHANGED vars

\* the PX ttl of a lease elapses: the coordination store drops the key
Expire(lockKey) ==
    /\ redis[lockKey] # NoLease
    /\ redis[lockKey].at < now
    /\ redis' = [redis EXCEPT ![lockKey] = NoLease]
    /\ UNCHANGED <<bookings, auditLog, calls, now, faults>>

\* time passes
Tick ==
    /\ now < MaxClock
    /\ now' = now + 1
    /\ UNCHANGED <<bookings, auditLog, redis, calls, faults>>

\* the process running the call stops between the return of acquire and the
\* end of release: its open transaction rolls back, nothing releases its lease
Crash(p) ==
    /\ calls[p].pc \in {"txFind", "txWrite", "audit", "release", "del"}
    /\ faults < MaxFaults
    /\ faults' = faults + 1
    /\ calls' = SetCall(p, [calls[p] EXCEPT !.pc = "crashed"])
    /\ UNCHANGED <<bookings, auditLog, redis, now>>

(* ---------------------------------------------------------------------- *)
(* RedisLock and LockHandle used directly: acquire, extend, release       *)
(* ---------------------------------------------------------------------- *)
\* the ttl of a lease in ticks of the clock: Expire can fire from at + Ttl on
Ttl == 1

\* the resource keys the direct users of RedisLock name
HandleKeys == {CreateLockKey(1, s) : s \in 0..FaultMaxTime}

\* the locals of RedisLock.acquire and then the fields of the LockHandle; pc:
\* "set" (SET NX of acquire), "held" (the user has the handle and calls nothing),
\* "pexpire" (PEXPIRE of extend), "relGet" / "relDel" (GET and DEL of release),
\* "done" (acquire returned null); issued: calls of RedisLock.release made for
\* the handle
NewHandle(lockKey) ==
    [op |-> "lock", lockKey |-> lockKey, pc |-> "set", lockValue |-> now,
     retries |-> 0, released |-> FALSE, expiresAt |-> -1,
     extends |-> 0, releases |-> 0, issued |-> 0, result |-> "NONE"]

\* redisLock.acquire(resourceKey, ttl) is called
HandleAcquire(lockKey) ==
    /\ Len(calls) < MaxCalls
    /\ Cardinality(InFlight) < MaxInFlight
    /\ calls' = Started(NewHandle(lockKey))
    /\ UNCHANGED <<bookings, auditLog, redis, now, faults>>

\* one iteration of the loop of acquire; on OK: new LockHandle(..., Date.now() + ttl)
HandleSet(p) ==
    /\ calls[p].op = "lock"
    /\ calls[p].pc = "set"
    /\ LET c == calls[p] IN
       IF redis[c.lockKey] = NoLease
       THEN /\ redis' = [redis EXCEPT ![c.lockKey] = [value |-> c.lockValue, at |-> now]]
            /\ calls' = SetCall(p, [c EXCEPT !.pc = "held", !.expiresAt = now + Ttl])
       ELSE /\ calls' = SetCall(p, IF c.retries + 1 < MaxRetries
                                   THEN [c EXCEPT !.retries = @ + 1]
                                   ELSE [c EXCEPT !.retries = @ + 1, !.pc = "done",
                                                  !.result = "NULL"])
            /\ UNCHANGED redis
    /\ UNCHANGED <<bookings, auditLog, now, faults>>

\* LockHandle.extend after lockManager.extend has returned: the boolean is not
\* looked at, this.expiresAt = Date.now() + additionalTTL
HandleExtended(c, extended) ==
    [c EXCEPT !.pc = "held", !.expiresAt = now + Ttl,
              !.result = IF extended THEN "EXTENDED" ELSE "NOT_EXTENDED"]

\* handle.extend(additionalTTL) is called: RedisLock.extend, GET and comparison
HandleExtendGet(p) ==
    /\ calls[p].op = "lock"
    /\ calls[p].pc = "held"
    /\ calls[p].extends < MaxHandleCalls
    /\ LET c == [calls[p] EXCEPT !.extends = @ + 1]
           currentValue == redis[c.lockKey].value
       IN  calls' = SetCall(p, IF currentValue = c.lockValue
                               THEN [c EXCEPT !.pc = "pexpire"]
                               ELSE HandleExtended(c, FALSE))
    /\ UNCHANGED <<bookings, auditLog, redis, now, faults>>

\* RedisLock.extend: PEXPIRE key additionalTTL; a key that is gone stays gone
HandleExtendPexpire(p) ==
    /\ calls[p].op = "lock"
    /\ calls[p].pc = "pexpire"
    /\ LET c == calls[p] IN
       /\ redis' = IF redis[c.lockKey] = NoLease THEN redis
                   ELSE [redis EXCEPT ![c.lockKey].at = now]
       /\ calls' = SetCall(p, HandleExtended(c, TRUE))
    /\ UNCHANGED <<bookings, auditLog, now, faults>>

\* mutant: release() does not look at the flag
NotReleasedAlways(released) == TRUE

\* LockHandle.release: if (!this.released)
NotReleased(released) == ~released

\* handle.release() is called; with the flag set it returns at once
HandleRelease(p) ==
    /\ calls[p].op = "lock"
    /\ calls[p].pc = "held"
    /\ calls[p].releases < MaxHandleCalls
    /\ LET c == [calls[p] EXCEPT !.releases = @ + 1] IN
       calls' = SetCall(p, IF NotReleased(c.released)
                           THEN [c EXCEPT !.pc = "relGet", !.issued = @ + 1]
                           ELSE c)
    /\ UNCHANGED <<bookings, auditLog, redis, now, faults>>

\* LockHandle.release after lockManager.release has returned: this.released = true
HandleReleased(c) == [c EXCEPT !.pc = "held", !.released = TRUE, !.result = "RELEASED"]

\* RedisLock.release: GET and comparison
HandleReleaseGet(p) ==
    /\ calls[p].op = "lock"
    /\ calls[p].pc = "relGet"
    /\ LET c == calls[p]
           currentValue == redis[c.lockKey].value
       IN  calls' = SetCall(p, IF ReleaseOwns(currentValue, c.lockValue)
                               THEN [c EXCEPT !.pc = "relDel"]
                               ELSE HandleReleased(c))
    /\ UNCHANGED <<bookings, auditLog, redis, now, faults>>

\* RedisLock.release: DEL
HandleReleaseDel(p) ==
    /\ calls[p].op = "lock"
    /\ calls[p].pc = "relDel"
    /\ redis' = [redis EXCEPT ![calls[p].lockKey] = NoLease]
    /\ calls' = SetCall(p, HandleReleased(calls[p]))
    /\ UNCHANGED <<bookings, auditLog, now, faults>>

\* client.get or client.del of RedisLock.release rejects: release rethrows and
\* LockHandle.release rejects before it sets the flag
HandleReleaseError(p) ==
    /\ calls[p].op = "lock"
    /\ calls[p].pc \in {"relGet", "relDel"}
    /\ faults < MaxFaults
    /\ faults' = faults + 1
    /\ calls' = SetCall(p, [calls[p] EXCEPT !.pc = "held", !.result = "REDIS_ERROR"])
    /\ UNCHANGED <<bookings, auditLog, redis, now>>

(* ---------------------------------------------------------------------- *)
(* getBooking, getUserBookings, getAvailableSlots as calls                 *)
(* ---------------------------------------------------------------------- *)
\* an option the caller left out (startDate, endDate of getUserBookings)
NoDate == -1

\* prisma.booking.findUnique({where: {id: bookingId}}): the row or null
GetBookingFindUnique(bookingId) == IF bookingId \in RowIds THEN bookingId ELSE Nil

\* the where object of getUserBookings: userId, status when given, startTime
\* gte startDate and lte endDate when given; with the default limit and offset
\* findMany returns every row that count counts
GetUserBookingsWhere(userId, status, startDate, endDate) ==
    {b \in RowIds : /\ bookings[b].userId = userId
                    /\ status # "undefined" => bookings[b].status = status
                    /\ startDate # NoDate => bookings[b].startTime >= startDate
                    /\ endDate # NoDate => bookings[b].startTime <= endDate}

\* mutant: a read enters RedisLock.acquire like createBooking
ReadCallLocked(op, userId, startDate, endDate, status, bookingId, value) ==
    NewCall(op, userId, startDate, endDate, status, Nil, bookingId)

\* a read awaits its queries and returns their value: it has no other statement
ReadCall(op, userId, startDate, endDate, status, bookingId, value) ==
    [NewCall(op, userId, startDate, endDate, status, Nil, bookingId)
        EXCEPT !.pc = "done", !.result = "OK", !.resId = value]

GetBooking(bookingId) ==
    /\ Len(calls) < MaxCalls
    /\ calls' = Started(ReadCall("getBooking", Nil, Nil, Nil, "undefined", bookingId,
                                 GetBookingFindUnique(bookingId)))
    /\ UNCHANGED <<bookings, auditLog, redis, now, faults>>

GetUserBookings(userId, status, startDate, endDate) ==
    /\ Len(calls) < MaxCalls
    /\ calls' = Started(ReadCall("getUserBookings", userId, startDate, endDate, status, Nil,
                                 GetUserBookingsWhere(userId, status, startDate, endDate)))
    /\ UNCHANGED <<bookings, auditLog, redis, now, faults>>

GetAvailableSlotsCall(userId, startDate, endDate, slotDuration) ==
    /\ Len(calls) < MaxCalls
    /\ calls' = Started(ReadCall("getAvailableSlots", userId, startDate, endDate,
                                 "undefined", Nil,
                                 ReturnedSlots(userId, startDate, endDate, slotDuration)))
    /\ UNCHANGED <<bookings, auditLog, redis, now, faults>>

(* ---------------------------------------------------------------------- *)
(* Inputs                                                                  *)
(* ---------------------------------------------------------------------- *)
\* User ids and idempotency keys are opaque strings: a call names one that an
\* earlier call named or the first one not named yet.
Fresh(used) == 1..(IF used = {} THEN 1 ELSE
                   (CHOOSE m \in used : \A x \in used : x <= m) + 1)
InputUsers(users) == users \cap Fresh({calls[q].userId : q \in CallIds})
InputKeys ==
    Keys \cap Fresh({calls[q].idempotencyKey : q \in {r \in CallIds : calls[r].op = "create"}})

\* a createBooking call arrives while fewer than `limit` calls are in flight
CreateArrives(limit, users, times, statuses) ==
    /\ Cardinality(InFlight) < limit
    /\ \E u \in InputUsers(users), s \in times, e \in times, st \in statuses, k \in InputKeys :
           s < e /\ StartCreate(u, s, e, st, k)

\* a cancelBooking call arrives; it names a booking of the store or one of `otherIds`
CancelArrives(limit, users, otherIds) ==
    /\ Cardinality(InFlight) < limit
    /\ \E b \in RowIds \cup otherIds, u \in InputUsers(users) : StartCancel(b, u)

\* a rescheduleBooking call arrives
RescheduleArrives(limit, users, times, otherIds) ==
    /\ Cardinality(InFlight) < limit
    /\ \E b \in RowIds \cup otherIds, u \in InputUsers(users), s \in times, e \in times :
           s < e /\ StartReschedule(b, u, s, e)

\* createBooking is called on the service itself, past the request schemas: the
\* two instants are any two instants
CreateArrivesDirect(limit, users, times, statuses) ==
    /\ Cardinality(InFlight) < limit
    /\ \E u \in InputUsers(users), s \in times, e \in times, st \in statuses, k \in InputKeys :
           StartCreate(u, s, e, st, k)

\* rescheduleBooking is called on the service itself
RescheduleArrivesDirect(limit, users, times, otherIds) ==
    /\ Cardinality(InFlight) < limit
    /\ \E b \in RowIds \cup otherIds, u \in InputUsers(users), s \in times, e \in times :
           StartReschedule(b, u, s, e)

(* ---------------------------------------------------------------------- *)
(* Spec: concurrent callers, leases that expire, a healthy relational      *)
(* store                                                                   *)
(* ---------------------------------------------------------------------- *)
Next ==
    \/ CreateArrives(MaxInFlight, 1..ConcNumUsers, 0..ConcMaxTime, {"undefined"})
    \/ CancelArrives(MaxInFlight, 1..ConcNumUsers, {})
    \/ RescheduleArrives(MaxInFlight, 1..ConcNumUsers, 0..ConcMaxTime, {})
    \/ \E p \in CallIds : AcquireEntry(p)
    \/ \E p \in CallIds : AcquireSet(p)
    \/ \E p \in CallIds : CreateTxFind(p)
    \/ \E p \in CallIds : CreateTxWrite(p)
    \/ \E p \in CallIds : CancelTxFind(p)
    \/ \E p \in CallIds : CancelTxWrite(p)
    \/ \E p \in CallIds : RescheduleTxFind(p)
    \/ \E p \in CallIds : RescheduleTxWrite(p)
    \/ \E p \in CallIds : CreateAuditLog(p)
    \/ \E p \in CallIds : ReleaseGet(p)
    \/ \E p \in CallIds : ReleaseDel(p)
    \/ \E k \in LockKeys : Expire(k)
    \/ Tick

Spec == Init /\ [][Next]_vars

(* ---------------------------------------------------------------------- *)
(* SpecFault: as Spec, and the relational store may fail a statement       *)
(* ---------------------------------------------------------------------- *)
NextFault ==
    \/ CreateArrives(MaxInFlight, 1..ConcNumUsers, 0..FaultMaxTime, {"undefined"})
    \/ CancelArrives(MaxInFlight, 1..ConcNumUsers, {NoSuchId})
    \/ RescheduleArrives(MaxInFlight, 1..ConcNumUsers, 0..FaultMaxTime, {NoSuchId})
    \/ \E p \in CallIds : AcquireEntry(p)
    \/ \E p \in CallIds : AcquireSet(p)
    \/ \E p \in CallIds : CreateTxFind(p)
    \/ \E p \in CallIds : CreateTxWrite(p)
    \/ \E p \in CallIds : CancelTxFind(p)
    \/ \E p \in CallIds : CancelTxWrite(p)
    \/ \E p \in CallIds : RescheduleTxFind(p)
    \/ \E p \in CallIds : RescheduleTxWrite(p)
    \/ \E p \in CallIds : CreateAuditLog(p)
    \/ \E p \in CallIds : StoreError(p)
    \/ \E p \in CallIds : ReleaseGet(p)
    \/ \E p \in CallIds : ReleaseDel(p)
    \/ \E k \in LockKeys : Expire(k)
    \/ Tick

SpecFault == Init /\ [][NextFault]_vars

(* ---------------------------------------------------------------------- *)
(* SpecSeq: the calls are issued one after the other, the stores are       *)
(* healthy, no lease outlives its call                                     *)
(* ---------------------------------------------------------------------- *)
NextSeq ==
    \/ CreateArrives(1, Users, Times, CallerStatus)
    \/ CancelArrives(1, Users, {NoSuchId})
    \/ RescheduleArrives(1, Users, Times, {NoSuchId})
    \/ \E p \in CallIds : AcquireEntry(p)
    \/ \E p \in CallIds : AcquireSet(p)
    \/ \E p \in CallIds : CreateTxFind(p)
    \/ \E p \in CallIds : CreateTxWrite(p)
    \/ \E p \in CallIds : CancelTxFind(p)
    \/ \E p \in CallIds : CancelTxWrite(p)
    \/ \E p \in CallIds : RescheduleTxFind(p)
    \/ \E p \in CallIds : RescheduleTxWrite(p)
    \/ \E p \in CallIds : CreateAuditLog(p)
    \/ \E p \in CallIds : ReleaseGet(p)
    \/ \E p \in CallIds : ReleaseDel(p)

SpecSeq == Init /\ [][NextSeq]_vars

(* ---------------------------------------------------------------------- *)
(* SpecCoord: as Spec, and the coordination store may fail a command       *)
(* ---------------------------------------------------------------------- *)
NextCoord ==
    \/ CreateArrives(MaxInFlight, 1..ConcNumUsers, 0..FaultMaxTime, {"undefined"})
    \/ CancelArrives(MaxInFlight, 1..ConcNumUsers, {NoSuchId})
    \/ RescheduleArrives(MaxInFlight, 1..ConcNumUsers, 0..FaultMaxTime, {NoSuchId})
    \/ \E p \in CallIds : AcquireEntry(p)
    \/ \E p \in CallIds : AcquireSet(p)
    \/ \E p \in CallIds : AcquireError(p)
    \/ \E p \in CallIds : CreateTxFind(p)
    \/ \E p \in CallIds : CreateTxWrite(p)
    \/ \E p \in CallIds : CancelTxFind(p)
    \/ \E p \in CallIds : CancelTxWrite(p)
    \/ \E p \in CallIds : RescheduleTxFind(p)
    \/ \E p \in CallIds : RescheduleTxWrite(p)
    \/ \E p \in CallIds : CreateAuditLog(p)
    \/ \E p \in CallIds : ReleaseGet(p)
    \/ \E p \in CallIds : ReleaseDel(p)
    \/ \E p \in CallIds : ReleaseError(p)
    \/ \E k \in LockKeys : Expire(k)
    \/ Tick

SpecCoord == Init /\ [][NextCoord]_vars

\* the inputs of SpecCoord with faults of both stores
NextAnyFault ==
    \/ CreateArrives(MaxInFlight, 1..ConcNumUsers, 0..FaultMaxTime, {"undefined"})
    \/ CancelArrives(MaxInFlight, 1..ConcNumUsers, {NoSuchId})
    \/ RescheduleArrives(MaxInFlight, 1..ConcNumUsers, 0..FaultMaxTime, {NoSuchId})
    \/ \E p \in CallIds : AcquireEntry(p)
    \/ \E p \in CallIds : AcquireSet(p)
    \/ \E p \in CallIds : AcquireError(p)
    \/ \E p \in CallIds : CreateTxFind(p)
    \/ \E p \in CallIds : CreateTxWrite(p)
    \/ \E p \in CallIds : CancelTxFind(p)
    \/ \E p \in CallIds : CancelTxWrite(p)
    \/ \E p \in CallIds : RescheduleTxFind(p)
    \/ \E p \in CallIds : RescheduleTxWrite(p)
    \/ \E p \in CallIds : CreateAuditLog(p)
    \/ \E p \in CallIds : ReleaseGet(p)
    \/ \E p \in CallIds : ReleaseDel(p)
    \/ \E p \in CallIds : ReleaseError(p)
    \/ \E k \in LockKeys : Expire(k)
    \/ Tick
    \/ \E p \in CallIds : StoreError(p)

SpecAnyFault == Init /\ [][NextAnyFault]_vars

(* ---------------------------------------------------------------------- *)
(* SpecRead: concurrent callers on healthy stores, and callers that read   *)
(* ---------------------------------------------------------------------- *)
NextRead ==
    \/ CreateArrives(MaxInFlight, 1..ConcNumUsers, 0..FaultMaxTime, {"undefined"})
    \/ CancelArrives(MaxInFlight, 1..ConcNumUsers, {NoSuchId})
    \/ RescheduleArrives(MaxInFlight, 1..ConcNumUsers, 0..FaultMaxTime, {NoSuchId})
    \/ \E b \in RowIds \cup {NoSuchId} : GetBooking(b)
    \/ \E u \in 1..ConcNumUsers, st \in {"undefined", "CONFIRMED"},
          s \in {NoDate, 0}, e \in {NoDate, FaultMaxTime} : GetUserBookings(u, st, s, e)
    \/ \E u \in 1..ConcNumUsers, s \in 0..ConcMaxTime, e \in 0..ConcMaxTime,
          d \in 1..MaxSlotDuration : s < e /\ GetAvailableSlotsCall(u, s, e, d)
    \/ \E p \in CallIds : AcquireEntry(p)
    \/ \E p \in CallIds : AcquireSet(p)
    \/ \E p \in CallIds : CreateTxFind(p)
    \/ \E p \in CallIds : CreateTxWrite(p)
    \/ \E p \in CallIds : CancelTxFind(p)
    \/ \E p \in CallIds : CancelTxWrite(p)
    \/ \E p \in CallIds : RescheduleTxFind(p)
    \/ \E p \in CallIds : RescheduleTxWrite(p)
    \/ \E p \in CallIds : CreateAuditLog(p)
    \/ \E p \in CallIds : ReleaseGet(p)
    \/ \E p \in CallIds : ReleaseDel(p)

SpecRead == Init /\ [][NextRead]_vars

(* ---------------------------------------------------------------------- *)
(* SpecCrash: createBooking callers of which one may stop while it holds   *)
(* its lease; time passes and the coordination store expires keys          *)
(* ---------------------------------------------------------------------- *)
NextCrash ==
    \/ CreateArrives(MaxInFlight, 1..ConcNumUsers, 0..FaultMaxTime, {"undefined"})
    \/ \E p \in CallIds : AcquireEntry(p)
    \/ \E p \in CallIds : AcquireSet(p)
    \/ \E p \in CallIds : CreateTxFind(p)
    \/ \E p \in CallIds : CreateTxWrite(p)
    \/ \E p \in CallIds : CreateAuditLog(p)
    \/ \E p \in CallIds : ReleaseGet(p)
    \/ \E p \in CallIds : ReleaseDel(p)
    \/ \E p \in CallIds : Crash(p)
    \/ \E k \in LockKeys : Expire(k)
    \/ Tick

\* the clock advances and the coordination store removes a key whose ttl has
\* elapsed, whatever the callers do
SpecCrash ==
    /\ Init /\ [][NextCrash]_vars
    /\ WF_vars(Tick)
    /\ \A k \in LockKeys : WF_vars(Expire(k))

(* ---------------------------------------------------------------------- *)
(* SpecLock: direct users of RedisLock; time passes, keys expire, a command *)
(* of release may fail                                                     *)
(* ---------------------------------------------------------------------- *)
NextLock ==
    \/ \E k \in HandleKeys : HandleAcquire(k)
    \/ \E p \in CallIds : HandleSet(p)
    \/ \E p \in CallIds : HandleExtendGet(p)
    \/ \E p \in CallIds : HandleExtendPexpire(p)
    \/ \E p \in CallIds : HandleRelease(p)
    \/ \E p \in CallIds : HandleReleaseGet(p)
    \/ \E p \in CallIds : HandleReleaseDel(p)
    \/ \E p \in CallIds : HandleReleaseError(p)
    \/ \E k \in LockKeys : Expire(k)
    \/ Tick

SpecLock == Init /\ [][NextLock]_vars

(* ---------------------------------------------------------------------- *)
(* SpecDirect: as SpecSeq, the calls are made on the service itself        *)
(* ---------------------------------------------------------------------- *)
NextDirect ==
    \/ CreateArrivesDirect(1, 1..ConcNumUsers, 0..ConcMaxTime, {"undefined"})
    \/ CancelArrives(1, 1..ConcNumUsers, {NoSuchId})
    \/ RescheduleArrivesDirect(1, 1..ConcNumUsers, 0..ConcMaxTime, {NoSuchId})
    \/ \E p \in CallIds : AcquireEntry(p)
    \/ \E p \in CallIds : AcquireSet(p)
    \/ \E p \in CallIds : CreateTxFind(p)
    \/ \E p \in CallIds : CreateTxWrite(p)
    \/ \E p \in CallIds : CancelTxFind(p)
    \/ \E p \in CallIds : CancelTxWrite(p)
    \/ \E p \in CallIds : RescheduleTxFind(p)
    \/ \E p \in CallIds : RescheduleTxWrite(p)
    \/ \E p \in CallIds : CreateAuditLog(p)
    \/ \E p \in CallIds : ReleaseGet(p)
    \/ \E p \in CallIds : ReleaseDel(p)

SpecDirect == Init /\ [][NextDirect]_vars

(* ---------------------------------------------------------------------- *)
(* Vocabulary of the claims                                                *)
(* ---------------------------------------------------------------------- *)
\* two half-open intervals share an instant
Overlap(s1, e1, s2, e2) == s1 < e2 /\ s2 < e1

Active(b) == bookings[b].status \in {"PENDING", "CONFIRMED"}

ConflictCodes == {"LOCK_CONFLICT", "OVERLAP_CONFLICT", "TIME_SLOT_CONFLICT"}

AllDone == \A p \in CallIds : calls[p].pc = "done"

\* booking b is an active booking of `userId` that overlaps [s, e)
ActiveOverlap(b, userId, s, e) ==
    /\ bookings[b].userId = userId
    /\ Active(b)
    /\ Overlap(bookings[b].startTime, bookings[b].endTime, s, e)

\* the call that started last
Last == calls[Len(calls)]

\* the last call has returned (under SpecSeq it ran with no other call in flight)
LastDone(op) == Len(calls) > 0 /\ Last.pc = "done" /\ Last.op = op

(* ---------------------------------------------------------------------- *)
(* C1                                                                      *)
(* ---------------------------------------------------------------------- *)
\* C1: in every reachable state no two distinct PENDING or CONFIRMED bookings
\* of one user have overlapping half-open intervals.
C1_NoActiveOverlap ==
    \A a \in RowIds, b \in RowIds :
        (a # b /\ Active(a))
            => ~ActiveOverlap(b, bookings[a].userId,
                              bookings[a].startTime, bookings[a].endTime)

(* ---------------------------------------------------------------------- *)
(* C2                                                                      *)
(* ---------------------------------------------------------------------- *)
\* the calls issued are N >= 2 createBooking calls for one user and one
\* interval, with pairwise distinct idempotency keys, and all have returned
SameSlotCreates ==
    /\ Len(calls) >= 2
    /\ AllDone
    /\ \A p \in CallIds :
        /\ calls[p].op = "create"
        /\ calls[p].userId = calls[1].userId
        /\ calls[p].startTime = calls[1].startTime
        /\ calls[p].endTime = calls[1].endTime
    /\ \A p \in CallIds, q \in CallIds :
        p # q => calls[p].idempotencyKey # calls[q].idempotencyKey

\* C2: of N >= 2 concurrent createBooking calls for the same user and interval
\* with distinct keys exactly one returns a booking, every other one fails with
\* LOCK_CONFLICT, OVERLAP_CONFLICT or TIME_SLOT_CONFLICT, and the store ends
\* with exactly one booking for that user and interval.
C2_ExactlyOneWins ==
    SameSlotCreates =>
        /\ Cardinality({p \in CallIds : calls[p].result = "OK"}) = 1
        /\ \A p \in CallIds : calls[p].result \in ConflictCodes \cup {"OK"}
        /\ Cardinality({b \in RowIds :
                           /\ bookings[b].userId = calls[1].userId
                           /\ bookings[b].startTime = calls[1].startTime
                           /\ bookings[b].endTime = calls[1].endTime}) = 1

\* a lease expired under its holder and the unique constraint stopped the loser
C2_Witness ==
    /\ SameSlotCreates
    /\ \E p \in CallIds : calls[p].result = "TIME_SLOT_CONFLICT"

(* ---------------------------------------------------------------------- *)
(* C3                                                                      *)
(* ---------------------------------------------------------------------- *)
\* the createBooking calls that returned a booking for idempotency key k
Resolved(k) ==
    {p \in CallIds : /\ calls[p].op = "create"
                     /\ calls[p].pc = "done"
                     /\ calls[p].result = "OK"
                     /\ calls[p].idempotencyKey = k}

\* C3: once a createBooking call with key t has returned a booking, a later
\* createBooking call with key t returns the booking with the same id whatever
\* its user and interval, changes no booking, and the store holds exactly one
\* booking with key t.
C3_IdempotentReplay ==
    [][(/\ Len(calls') = Len(calls) + 1
        /\ calls'[Len(calls')].op = "create"
        /\ Resolved(calls'[Len(calls')].idempotencyKey) # {})
            => LET c == calls'[Len(calls')] IN
               /\ c.pc = "done"
               /\ c.result = "OK"
               /\ \A p \in Resolved(c.idempotencyKey) : c.resId = calls[p].resId
               /\ bookings' = bookings
               /\ Cardinality({b \in RowIds :
                                  bookings[b].idempotencyKey = c.idempotencyKey}) = 1]_vars

\* a replay with another user and another interval got the first call's booking
C3_Witness ==
    \E p \in CallIds, q \in CallIds :
        /\ p < q
        /\ p \in Resolved(calls[q].idempotencyKey)
        /\ q \in Resolved(calls[q].idempotencyKey)
        /\ calls[q].userId # calls[p].userId
        /\ calls[q].startTime # calls[p].startTime
        /\ calls[q].resId = calls[p].resId

(* ---------------------------------------------------------------------- *)
(* C4                                                                      *)
(* ---------------------------------------------------------------------- *)
\* no earlier call carried the idempotency key of the last call
FreshKey ==
    \A p \in 1..(Len(calls) - 1) :
        calls[p].op = "create" => calls[p].idempotencyKey # Last.idempotencyKey

\* the last call inserted a booking
Inserted == \E b \in RowIds : bookings[b].idempotencyKey = Last.idempotencyKey

\* the bookings that were in the store when the last call ran
Before == {b \in RowIds : bookings[b].idempotencyKey # Last.idempotencyKey}

\* C4: a createBooking call with a fresh key that runs alone is rejected with a
\* conflict error and inserts nothing if and only if an active booking of the
\* user overlaps the requested interval.
C4_RejectedIffOverlap ==
    (LastDone("create") /\ FreshKey)
        => ((Last.result \in ConflictCodes /\ ~Inserted)
              <=> \E b \in Before :
                      ActiveOverlap(b, Last.userId, Last.startTime, Last.endTime))

(* ---------------------------------------------------------------------- *)
(* C5                                                                      *)
(* ---------------------------------------------------------------------- *)
\* the calls issued are N >= 2 createBooking calls of one user with pairwise
\* distinct keys and pairwise disjoint intervals
DisjointCreates ==
    /\ Len(calls) >= 2
    /\ \A p \in CallIds : calls[p].op = "create" /\ calls[p].userId = calls[1].userId
    /\ \A p \in CallIds, q \in CallIds :
        p # q => /\ calls[p].idempotencyKey # calls[q].idempotencyKey
                 /\ ~Overlap(calls[p].startTime, calls[p].endTime,
                             calls[q].startTime, calls[q].endTime)

\* C5: concurrent createBooking calls of one user for pairwise disjoint
\* intervals all succeed: none fails with a conflict error and the store ends
\* with one booking per call.
C5_DisjointAllSucceed ==
    DisjointCreates =>
        /\ \A p \in CallIds : calls[p].result \in {"NONE", "OK"}
        /\ AllDone => Len(bookings) = Len(calls)

\* two calls for disjoint intervals are in flight together and both have
\* created their booking
C5_Witness ==
    /\ DisjointCreates
    /\ \A p \in CallIds : calls[p].pc = "release" /\ calls[p].result = "OK"
    /\ Len(bookings) = Len(calls)

(* ---------------------------------------------------------------------- *)
(* C6, C7                                                                  *)
(* ---------------------------------------------------------------------- *)
\* the last call is a rescheduleBooking by the owner of an existing booking
OwnerReschedule ==
    /\ LastDone("reschedule")
    /\ Last.bookingId \in RowIds
    /\ bookings[Last.bookingId].userId = Last.userId

\* another active booking of the owner overlaps the new interval
NewSlotTaken ==
    \E b \in RowIds \ {Last.bookingId} :
        ActiveOverlap(b, Last.userId, Last.startTime, Last.endTime)

\* C6: rescheduleBooking to an interval that overlaps another active booking of
\* the owner fails with TIME_SLOT_CONFLICT.
C6_RescheduleConflictRejected ==
    (OwnerReschedule /\ NewSlotTaken) => Last.result = "TIME_SLOT_CONFLICT"

\* C7: rescheduleBooking by the owner to an interval that overlaps no other
\* active booking of the owner returns the booking, whose startTime and endTime
\* are the new ones.
C7_RescheduleFreeSucceeds ==
    (OwnerReschedule /\ ~NewSlotTaken)
        => /\ Last.result = "OK"
           /\ Last.resId = Last.bookingId
           /\ bookings[Last.bookingId].startTime = Last.startTime
           /\ bookings[Last.bookingId].endTime = Last.endTime

(* ---------------------------------------------------------------------- *)
(* C8                                                                      *)
(* ---------------------------------------------------------------------- *)
\* C8: every step that changes the startTime or the endTime of a booking is the
\* update of a rescheduleBooking call on that booking and leaves the booking
\* with exactly the new startTime and the new endTime of that call, its status
\* unchanged: no state shows the booking without an interval or with the start
\* of one and the end of the other.
C8_RescheduleAtomic ==
    [][\A b \in RowIds :
        (bookings'[b].startTime # bookings[b].startTime
           \/ bookings'[b].endTime # bookings[b].endTime)
        => \E p \in CallIds :
              /\ calls[p].op = "reschedule"
              /\ calls[p].bookingId = b
              /\ calls[p].pc = "txWrite"
              /\ calls'[p].pc # "txWrite"
              /\ bookings'[b].startTime = calls[p].startTime
              /\ bookings'[b].endTime = calls[p].endTime
              /\ bookings'[b].status = bookings[b].status]_vars

\* a reschedule moved a booking to an interval with another start and another
\* end while another call was in flight
C8_Witness ==
    \E p \in CallIds, q \in CallIds :
        /\ calls[q].op = "create" /\ calls[q].result = "OK"
        /\ calls[p].op = "reschedule" /\ calls[p].bookingId = calls[q].resId
        /\ calls[p].resId = calls[p].bookingId
        /\ calls[p].startTime # calls[q].startTime
        /\ calls[p].endTime # calls[q].endTime
        /\ bookings[calls[p].bookingId].startTime = calls[p].startTime
        /\ bookings[calls[p].bookingId].endTime = calls[p].endTime
        /\ Cardinality(InFlight) = 2

(* ---------------------------------------------------------------------- *)
(* C9                                                                      *)
(* ---------------------------------------------------------------------- *)
\* call p takes the findUnique step of cancelBooking on a cancelled booking of
\* the caller
CancelOfCancelled(p) ==
    /\ CancelTxFind(p)
    /\ calls[p].bookingId \in RowIds
    /\ bookings[calls[p].bookingId].userId = calls[p].userId
    /\ bookings[calls[p].bookingId].status = "CANCELLED"

\* C9: a CANCELLED booking stays CANCELLED in every later state, and a
\* cancelBooking by the owner on a CANCELLED booking fails with
\* ALREADY_CANCELLED and changes neither the bookings nor the audit log.
C9_CancelledIsTerminal ==
    [][/\ \A b \in RowIds :
            bookings[b].status = "CANCELLED" => bookings'[b].status = "CANCELLED"
       /\ \A p \in CallIds :
            CancelOfCancelled(p)
                => /\ calls'[p].result = "ALREADY_CANCELLED"
                   /\ calls'[p].pc = "release"
                   /\ bookings' = bookings
                   /\ auditLog' = auditLog]_vars

\* a cancel of a cancelled booking has failed
C9_Witness ==
    \E p \in CallIds :
        /\ calls[p].op = "cancel"
        /\ calls[p].pc = "done"
        /\ calls[p].result = "ALREADY_CANCELLED"
        /\ bookings[calls[p].bookingId].status = "CANCELLED"

(* ---------------------------------------------------------------------- *)
(* C10                                                                     *)
(* ---------------------------------------------------------------------- *)
\* call p, which holds or held a lease, returns or throws in this step
ReturnsAfterAcquire(p) ==
    /\ calls[p].pc \in {"txFind", "txWrite", "audit", "release", "del"}
    /\ calls'[p].pc = "done"

\* C10: when a call that acquired a lease returns or throws, on any exit path,
\* its lock key does not hold the call's lockValue, and the call got there
\* through lock.release().
C10_LeaseReleasedOnReturn ==
    [][\A p \in CallIds :
        ReturnsAfterAcquire(p)
            => /\ calls[p].pc \in {"release", "del"}
               /\ redis'[LockKeyOf(calls[p])].value # calls[p].lockValue]_vars

\* calls have left through each exit path and no lease is left: a success, an
\* error thrown inside the transaction and a failed audit write after the commit
C10_Witness ==
    /\ AllDone
    /\ \A k \in LockKeys : redis[k] = NoLease
    /\ \E p \in CallIds : calls[p].op = "create" /\ calls[p].result = "OK"
    /\ \E p \in CallIds : calls[p].result = "OVERLAP_CONFLICT"
    /\ \E p \in CallIds : calls[p].result = "STORE_ERROR" /\ calls[p].resId # Nil

(* ---------------------------------------------------------------------- *)
(* C11                                                                     *)
(* ---------------------------------------------------------------------- *)
\* acquire returned a handle to call q and q has not reached lock.release()
HoldsHandle(q) == calls[q].pc \in {"txFind", "txWrite", "audit"}

\* the lease of q cannot have expired: q asked for it at the present instant,
\* and a lease set at the present instant has all of its ttl left
LeaseFresh(q) == calls[q].lockValue = now

\* C11: while a call holds a handle on a lock key whose lease has neither been
\* released nor expired, no SET NX of another call on that key succeeds; and a
\* SET NX on a key that holds no lease succeeds and stores the caller's lockValue.
C11_LeaseExclusive ==
    [][\A p \in CallIds :
        (calls[p].pc = "set" /\ calls'[p] # calls[p])
          => /\ (\E q \in CallIds \ {p} :
                    /\ LockKeyOf(calls[q]) = LockKeyOf(calls[p])
                    /\ HoldsHandle(q)
                    /\ LeaseFresh(q))
                  => calls'[p].pc # "txFind"
             /\ redis[LockKeyOf(calls[p])] = NoLease
                  => /\ calls'[p].pc = "txFind"
                     /\ redis'[LockKeyOf(calls[p])].value = calls[p].lockValue]_vars

(* ---------------------------------------------------------------------- *)
(* C12                                                                     *)
(* ---------------------------------------------------------------------- *)
\* C12: every SET NX attempt of an acquire either returns the handle, or counts
\* one more retry and leaves the call in the loop with fewer than MaxRetries
\* retries, or is the MaxRetries-th failed attempt, after which acquire returns
\* null: an acquire makes at most MaxRetries attempts.
C12_AcquireBounded ==
    [][\A p \in CallIds :
        (calls[p].pc = "set" /\ calls'[p] # calls[p])
          => \/ calls'[p].pc = "txFind"
             \/ /\ calls'[p].pc = "set"
                /\ calls'[p].retries = calls[p].retries + 1
                /\ calls'[p].retries < MaxRetries
             \/ /\ calls'[p].pc = "done"
                /\ calls[p].retries + 1 = MaxRetries
                /\ calls'[p].result = "LOCK_CONFLICT"]_vars

\* an acquire got its handle at its last attempt, after MaxRetries - 1 failed ones
C12_Witness ==
    \E p \in CallIds :
        /\ calls[p].pc = "txFind"
        /\ calls[p].retries = MaxRetries - 1
        /\ calls[p].retries > 0

(* ---------------------------------------------------------------------- *)
(* C13                                                                     *)
(* ---------------------------------------------------------------------- *)
\* C13: whenever the DEL of a release removes a lease, the value stored under
\* the key is the lockValue of the releasing call.
C13_ReleaseOnlyOwnLease ==
    [][\A p \in CallIds :
        (calls[p].pc = "del" /\ calls'[p] # calls[p]
           /\ redis[LockKeyOf(calls[p])] # NoLease)
          => redis[LockKeyOf(calls[p])].value = calls[p].lockValue]_vars

(* ---------------------------------------------------------------------- *)
(* C14                                                                     *)
(* ---------------------------------------------------------------------- *)
\* C14: after every step no two bookings carry the same idempotency key, and
\* the step leaves the idempotency key of every booking as it was.
C14_OneBookingPerKey ==
    [][/\ \A a \in 1..Len(bookings'), b \in 1..Len(bookings') :
            bookings'[a].idempotencyKey = bookings'[b].idempotencyKey => a = b
       /\ \A b \in RowIds :
            bookings'[b].idempotencyKey = bookings[b].idempotencyKey]_vars

\* two createBooking calls with one key and different intervals both missed
\* the idempotency lookup; the store took the insert of one and refused the other
C14_Witness ==
    /\ Len(calls) = 2
    /\ AllDone
    /\ calls[1].op = "create" /\ calls[2].op = "create"
    /\ calls[1].idempotencyKey = calls[2].idempotencyKey
    /\ calls[1].startTime # calls[2].startTime
    /\ {calls[1].result, calls[2].result} = {"OK", "TIME_SLOT_CONFLICT"}
    /\ Len(bookings) = 1

(* ---------------------------------------------------------------------- *)
(* C15                                                                     *)
(* ---------------------------------------------------------------------- *)
\* C15: when a createBooking call arrives with an idempotency key that a booking
\* of the store carries, the call returns that booking at once: it never enters
\* RedisLock.acquire, and its arrival changes no lease, no audit record and no
\* booking.
C15_IdempotentHitFrame ==
    [][(/\ Len(calls') = Len(calls) + 1
        /\ calls'[Len(calls')].op = "create"
        /\ \E b \in RowIds :
              bookings[b].idempotencyKey = calls'[Len(calls')].idempotencyKey)
            => LET c == calls'[Len(calls')] IN
               /\ c.pc = "done"
               /\ c.result = "OK"
               /\ c.resId \in RowIds
               /\ bookings[c.resId].idempotencyKey = c.idempotencyKey
               /\ c.lockValue = -1
               /\ redis' = redis
               /\ auditLog' = auditLog
               /\ bookings' = bookings]_vars

\* a call got the booking of a call that has committed its insert and has not
\* yet written its audit record: the audit log is still empty
C15_Witness ==
    \E p \in CallIds, q \in CallIds :
        /\ p < q
        /\ calls[p].op = "create" /\ calls[p].pc = "audit"
        /\ calls[q].op = "create" /\ calls[q].pc = "done"
        /\ calls[q].idempotencyKey = calls[p].idempotencyKey
        /\ calls[q].result = "OK"
        /\ calls[q].resId = calls[p].resId
        /\ auditLog = <<>>

(* ---------------------------------------------------------------------- *)
(* C16                                                                     *)
(* ---------------------------------------------------------------------- *)
\* the SET NX of call p fails in this step and it was the last attempt:
\* RedisLock.acquire returns null
AcquireReturnsNull(p) ==
    /\ calls[p].pc = "set"
    /\ calls'[p] # calls[p]
    /\ redis[LockKeyOf(calls[p])] # NoLease
    /\ calls[p].retries + 1 >= MaxRetries

\* C16: when acquire returns null the call (a createBooking, a cancelBooking or
\* a rescheduleBooking) throws LOCK_CONFLICT in the same step, having started no
\* transaction, and the bookings and the audit log are unchanged; a call throws
\* LOCK_CONFLICT in no other way.
C16_LockConflictOnNull ==
    [][\A p \in CallIds :
        /\ AcquireReturnsNull(p)
             => /\ calls'[p].pc = "done"
                /\ calls'[p].result = "LOCK_CONFLICT"
                /\ calls'[p].resId = Nil
                /\ bookings' = bookings
                /\ auditLog' = auditLog
        /\ (calls'[p].result = "LOCK_CONFLICT" /\ calls[p].result # "LOCK_CONFLICT")
             => AcquireReturnsNull(p)]_vars

\* a rescheduleBooking has thrown LOCK_CONFLICT while another call on the same
\* booking is in its transaction
C16_Witness ==
    \E p \in CallIds, q \in CallIds :
        /\ calls[p].op = "reschedule" /\ calls[p].pc = "done"
        /\ calls[p].result = "LOCK_CONFLICT"
        /\ calls[q].op = "reschedule" /\ calls[q].bookingId = calls[p].bookingId
        /\ calls[q].pc = "txFind"

(* ---------------------------------------------------------------------- *)
(* C17                                                                     *)
(* ---------------------------------------------------------------------- *)
\* the store refuses the insert of createBooking call p in this step: a booking
\* carries the call's idempotency key, or the call's user and interval
InsertRejected(p) ==
    /\ calls[p].op = "create"
    /\ calls[p].pc = "txWrite"
    /\ calls'[p] # calls[p]
    /\ \E b \in RowIds :
          \/ bookings[b].idempotencyKey = calls[p].idempotencyKey
          \/ /\ bookings[b].userId = calls[p].userId
             /\ bookings[b].startTime = calls[p].startTime
             /\ bookings[b].endTime = calls[p].endTime

\* C17: when the store refuses the insert of a createBooking for a unique
\* constraint, the call fails with TIME_SLOT_CONFLICT, no booking is inserted
\* and the call goes to lock.release(); when such a call returns, its lock key
\* does not hold its lockValue.
C17_UniqueViolationHandled ==
    [][\A p \in CallIds :
        /\ InsertRejected(p)
             => /\ calls'[p].result = "TIME_SLOT_CONFLICT"
                /\ calls'[p].pc = "release"
                /\ bookings' = bookings
        /\ (/\ calls[p].op = "create"
            /\ calls[p].result = "TIME_SLOT_CONFLICT"
            /\ calls[p].pc # "done"
            /\ calls'[p].pc = "done")
             => /\ calls[p].pc \in {"release", "del"}
                /\ redis'[LockKeyOf(calls[p])].value # calls[p].lockValue]_vars

\* a createBooking was refused for its idempotency key alone (the booking with
\* that key has another interval), has returned, and its lock key holds no lease
C17_Witness ==
    \E p \in CallIds :
        /\ calls[p].op = "create" /\ calls[p].pc = "done"
        /\ calls[p].result = "TIME_SLOT_CONFLICT"
        /\ \E b \in RowIds : /\ bookings[b].idempotencyKey = calls[p].idempotencyKey
                             /\ bookings[b].startTime # calls[p].startTime
        /\ \A b \in RowIds : ~(/\ bookings[b].userId = calls[p].userId
                               /\ bookings[b].startTime = calls[p].startTime
                               /\ bookings[b].endTime = calls[p].endTime)
        /\ redis[LockKeyOf(calls[p])] = NoLease

(* ---------------------------------------------------------------------- *)
(* C18                                                                     *)
(* ---------------------------------------------------------------------- *)
\* cancelBooking or rescheduleBooking call p reads its booking in this step
FindStep(p) ==
    /\ calls[p].op \in {"cancel", "reschedule"}
    /\ calls[p].pc = "txFind"
    /\ calls'[p] # calls[p]

\* C18: a cancelBooking or rescheduleBooking fails with NOT_FOUND when no
\* booking has the id and with UNAUTHORIZED when the booking is not the
\* caller's, whatever the status of the booking and the new interval; no step of
\* a call that fails so changes a booking or the audit log.
C18_NotFoundThenUnauthorized ==
    [][\A p \in CallIds :
        /\ (FindStep(p) /\ calls[p].bookingId \notin RowIds)
             => calls'[p].result = "NOT_FOUND" /\ calls'[p].pc = "release"
        /\ (/\ FindStep(p)
            /\ calls[p].bookingId \in RowIds
            /\ bookings[calls[p].bookingId].userId # calls[p].userId)
             => calls'[p].result = "UNAUTHORIZED" /\ calls'[p].pc = "release"
        /\ (calls'[p] # calls[p] /\ calls'[p].result \in {"NOT_FOUND", "UNAUTHORIZED"})
             => bookings' = bookings /\ auditLog' = auditLog]_vars

\* a cancelBooking on a cancelled booking of another user has failed with
\* UNAUTHORIZED, not with ALREADY_CANCELLED
C18_Witness ==
    \E p \in CallIds :
        /\ calls[p].op = "cancel" /\ calls[p].pc = "done"
        /\ calls[p].result = "UNAUTHORIZED"
        /\ bookings[calls[p].bookingId].status = "CANCELLED"

(* ---------------------------------------------------------------------- *)
(* C19                                                                     *)
(* ---------------------------------------------------------------------- *)
\* the number of audit records of booking b with the given action
AuditCount(b, action) ==
    Cardinality({i \in 1..Len(auditLog) :
                    auditLog[i].bookingId = b /\ auditLog[i].action = action})

\* the cancelBooking or rescheduleBooking calls that committed an update of b
Committed(op, b) == {p \in CallIds : calls[p].op = op /\ calls[p].resId = b}

\* every committed mutation has its one audit record and there is no other
OneRecordPerMutation ==
    /\ \A b \in RowIds :
          /\ AuditCount(b, "CREATED") = 1
          /\ AuditCount(b, "CANCELLED") = Cardinality(Committed("cancel", b))
          /\ AuditCount(b, "RESCHEDULED") = Cardinality(Committed("reschedule", b))
    /\ \A i \in 1..Len(auditLog) :
          /\ auditLog[i].bookingId \in RowIds
          /\ auditLog[i].action \in {"CREATED", "CANCELLED", "RESCHEDULED"}

\* C19: every step leaves the audit records written so far as they are, and
\* when all calls have returned there is exactly one CREATED record per booking
\* inserted, one CANCELLED record per committed cancel, one RESCHEDULED record
\* per committed reschedule, and no other record.
C19_OneAuditRecordPerMutation ==
    [][/\ Len(auditLog') >= Len(auditLog)
       /\ \A i \in 1..Len(auditLog) : auditLog'[i] = auditLog[i]
       /\ AllDone' => OneRecordPerMutation']_vars

(* ---------------------------------------------------------------------- *)
(* C20                                                                     *)
(* ---------------------------------------------------------------------- *)
\* C20: when no call is in flight, for every user, window and slot duration
\* getAvailableSlots returns a candidate slot if and only if no PENDING or
\* CONFIRMED booking of the user overlaps the slot.
C20_SlotAvailableIffFree ==
    AllDone =>
        \A userId \in Users, startDate \in Times, endDate \in Times,
           slotDuration \in 1..MaxSlotDuration :
            startDate < endDate =>
                \A slotStart \in CandidateSlots(startDate, endDate, slotDuration) :
                    slotStart \in GetAvailableSlots(userId, startDate, endDate, slotDuration)
                        <=> ~\E b \in RowIds :
                                ActiveOverlap(b, userId, slotStart, slotStart + slotDuration)

(* ---------------------------------------------------------------------- *)
(* C21                                                                     *)
(* ---------------------------------------------------------------------- *)
\* the error kinds the service defines for its callers
BusinessCodes ==
    {"LOCK_CONFLICT", "OVERLAP_CONFLICT", "TIME_SLOT_CONFLICT",
     "NOT_FOUND", "UNAUTHORIZED", "ALREADY_CANCELLED"}

C22_ThreeClausesAreOverlap ==
    \A b \in RowIds, startTime \in Times, endTime \in Times :
        startTime < endTime
          => (CreateOverlapWhere(bookings[b], startTime, endTime)
                <=> Overlap(bookings[b].startTime, bookings[b].endTime,
                            startTime, endTime))

\* the store holds a booking that lies strictly inside an interval of Times
\* (only the third clause matches it) and one that ends where an interval starts
C22_Witness ==
    /\ \E b \in RowIds, startTime \in Times, endTime \in Times :
          startTime < bookings[b].startTime /\ bookings[b].endTime < endTime
    /\ \E b \in RowIds, startTime \in Times :
          bookings[b].endTime = startTime /\ startTime < MaxTime

(* ---------------------------------------------------------------------- *)
(* C23                                                                     *)
(* ---------------------------------------------------------------------- *)
\* call p is inside its transaction: its check is due or its write is due
InTransaction(p) == calls[p].pc \in {"txFind", "txWrite"}

\* C23: in every reachable state at most one call per lock key is inside its
\* transaction.
C23_OneInTransactionPerKey ==
    \A p \in CallIds, q \in CallIds :
        (p # q /\ InTransaction(p) /\ InTransaction(q))
            => LockKeyOf(calls[p]) # LockKeyOf(calls[q])

(* ---------------------------------------------------------------------- *)
(* C24                                                                     *)
(* ---------------------------------------------------------------------- *)
\* C24: in every reachable state a cancelBooking and a rescheduleBooking of the
\* same booking are not both inside their transactions.
C24_CancelExcludesReschedule ==
    \A p \in CallIds, q \in CallIds :
        (/\ calls[p].op = "cancel"
         /\ calls[q].op = "reschedule"
         /\ calls[p].bookingId = calls[q].bookingId)
            => ~(InTransaction(p) /\ InTransaction(q))

(* ---------------------------------------------------------------------- *)
(* C25                                                                     *)
(* ---------------------------------------------------------------------- *)
\* the calls issued are two createBooking calls of one user with different
\* keys, whose intervals overlap and start at different instants
OverlappingCreates ==
    /\ Len(calls) = 2
    /\ calls[1].op = "create" /\ calls[2].op = "create"
    /\ calls[1].userId = calls[2].userId
    /\ calls[1].idempotencyKey # calls[2].idempotencyKey
    /\ calls[1].startTime # calls[2].startTime
    /\ Overlap(calls[1].startTime, calls[1].endTime,
               calls[2].startTime, calls[2].endTime)

\* C25: of two createBooking calls of one user for overlapping intervals with
\* different starts at most one returns a booking.
C25_OverlappingCreatesOneWins ==
    OverlappingCreates => ~(calls[1].result = "OK" /\ calls[2].result = "OK")

(* ---------------------------------------------------------------------- *)
(* C26                                                                     *)
(* ---------------------------------------------------------------------- *)
\* the calls issued are two createBooking calls with the same idempotency key,
\* user and interval
SameRequestTwice ==
    /\ Len(calls) = 2
    /\ calls[1].op = "create" /\ calls[2].op = "create"
    /\ calls[1].idempotencyKey = calls[2].idempotencyKey
    /\ calls[1].userId = calls[2].userId
    /\ calls[1].startTime = calls[2].startTime
    /\ calls[1].endTime = calls[2].endTime

\* C26: of two createBooking calls with the same key and payload neither fails
\* with a conflict error, and when both have returned they have returned the
\* same booking.
C26_ConcurrentRetrySameBooking ==
    SameRequestTwice =>
        /\ \A p \in CallIds : calls[p].result \notin ConflictCodes
        /\ AllDone => /\ calls[1].result = "OK" /\ calls[2].result = "OK"
                      /\ calls[1].resId = calls[2].resId

(* ---------------------------------------------------------------------- *)
(* C27                                                                     *)
(* ---------------------------------------------------------------------- *)
\* the createBooking call p has rejected with an error
CreateFailed(p) ==
    /\ calls[p].op = "create"
    /\ calls[p].pc = "done"
    /\ calls[p].result # "OK"

\* the call p has committed the insert of a booking carrying its key
CommittedInsert(p) ==
    /\ calls[p].resId \in RowIds
    /\ bookings[calls[p].resId].idempotencyKey = calls[p].idempotencyKey

\* C27: a createBooking call that has failed with an error has committed no
\* booking: a committed insert is never followed by an error of the call.
C27_FailedCreateCommittedNothing ==
    \A p \in CallIds : CreateFailed(p) => ~CommittedInsert(p)

(* ---------------------------------------------------------------------- *)
(* C28                                                                     *)
(* ---------------------------------------------------------------------- *)
\* the positions of a call after the first statement of its transaction
PastTxStart == {"txWrite", "audit", "release", "del", "done"}

\* C28: a call starts its transaction at most once: the step taken at the first
\* statement of the transaction leaves it, and a call that is past it, whether
\* by success or by a failure of the transaction, of the audit write or of the
\* release, never goes back to the acquisition or to the transaction.
C28_TransactionStartedOnce ==
    [][\A p \in CallIds :
          /\ calls[p].pc \in PastTxStart => calls'[p].pc \in PastTxStart
          /\ calls[p].pc = "txFind" =>
                \/ calls'[p] = calls[p]
                \/ calls'[p].pc \in PastTxStart]_vars

\* a call whose transaction failed has rejected with that error
C28_Witness ==
    \E p \in CallIds : /\ calls[p].pc = "done"
                       /\ calls[p].result = "STORE_ERROR"
                       /\ calls[p].resId = Nil

(* ---------------------------------------------------------------------- *)
(* C29                                                                     *)
(* ---------------------------------------------------------------------- *)
\* C29: for every user, window and slot duration, every slot getAvailableSlots
\* returns has the length slotDuration, starts a whole number of durations
\* after startDate and lies inside [startDate, endDate).
C29_SlotsTileWindow ==
    \A userId \in Users, startDate \in Times, endDate \in Times,
       slotDuration \in 1..MaxSlotDuration :
        startDate < endDate =>
            \A slot \in ReturnedSlots(userId, startDate, endDate, slotDuration) :
                /\ slot.endTime - slot.startTime = slotDuration
                /\ \E k \in 0..MaxTime : slot.startTime = startDate + k * slotDuration
                /\ startDate <= slot.startTime
                /\ slot.endTime <= endDate

(* ---------------------------------------------------------------------- *)
(* C30                                                                     *)
(* ---------------------------------------------------------------------- *)
ReadOps == {"getAvailableSlots", "getBooking", "getUserBookings"}

\* a getAvailableSlots, getBooking or getUserBookings call is made in this step
ReadArrives == /\ Len(calls') = Len(calls) + 1
               /\ calls'[Len(calls')].op \in ReadOps

\* C30: getAvailableSlots, getBooking and getUserBookings take no lease and
\* leave the bookings, the audit log and the coordination store as they were:
\* the call returns without entering RedisLock.acquire, and no later step is
\* taken on its behalf.
C30_ReadsChangeNothing ==
    [][/\ ReadArrives =>
            /\ bookings' = bookings
            /\ auditLog' = auditLog
            /\ redis' = redis
            /\ calls'[Len(calls')].pc = "done"
            /\ calls'[Len(calls')].lockValue = -1
       /\ \A p \in CallIds : calls[p].op \in ReadOps => calls'[p] = calls[p]]_vars

\* two reads have returned while a createBooking call had committed its booking
\* and still held its lease
C30_Witness ==
    /\ Len(calls) = MaxCalls
    /\ \A p \in 2..MaxCalls : calls[p].op \in ReadOps /\ calls[p].pc = "done"
    /\ calls[1].op = "create" /\ calls[1].pc = "audit"
    /\ bookings # <<>>
    /\ redis[LockKeyOf(calls[1])].value = calls[1].lockValue

(* ---------------------------------------------------------------------- *)
(* C31                                                                     *)
(* ---------------------------------------------------------------------- *)
\* the call p stopped while it held a handle for the key k
CrashedOn(p, k) == calls[p].pc = "crashed" /\ LockKeyOf(calls[p]) = k

\* the key k carries the lease of a holder that stopped, and the clock of the
\* model can still pass the instant the lease was set
CrashedLease(k) ==
    /\ redis[k] # NoLease
    /\ redis[k].at < MaxClock
    /\ \E p \in CallIds : CrashedOn(p, k) /\ redis[k].value = calls[p].lockValue

\* a SET NX on the key k of a holder that stopped, made when the key is gone,
\* returns OK: the caller gets its handle
AcquireAfterExpirySucceeds ==
    \A q \in CallIds :
        (/\ calls[q].pc = "set"
         /\ redis[LockKeyOf(calls[q])] = NoLease
         /\ \E p \in CallIds : CrashedOn(p, LockKeyOf(calls[q]))
         /\ calls'[q] # calls[q])
        => /\ calls'[q].pc = "txFind"
           /\ redis'[LockKeyOf(calls[q])].value = calls[q].lockValue

\* C31: the lease of a holder that stopped without releasing disappears once
\* its ttl has elapsed, and an acquire of that key made after that succeeds.
C31_CrashedHolderExpires ==
    /\ \A k \in LockKeys : CrashedLease(k) ~> (redis[k] = NoLease)
    /\ [][AcquireAfterExpirySucceeds]_vars

\* a later call holds the key of a call that stopped
C31_Witness ==
    \E p \in CallIds, q \in CallIds :
        /\ p < q
        /\ calls[p].pc = "crashed"
        /\ calls[q].pc = "txFind"
        /\ LockKeyOf(calls[q]) = LockKeyOf(calls[p])
        /\ redis[LockKeyOf(calls[q])].value = calls[q].lockValue

(* ---------------------------------------------------------------------- *)
(* C32                                                                     *)
(* ---------------------------------------------------------------------- *)
\* the call p holds a handle acquire returned to it
HasHandle(p) == calls[p].pc \in {"txFind", "txWrite", "audit", "release", "del"}

\* C32: the lockValue of a handle differs from the lockValue of every other
\* handle, also of one acquired by the same instance at the same instant.
C32_LockValuesDiffer ==
    \A p \in CallIds, q \in CallIds :
        (p # q /\ HasHandle(p) /\ HasHandle(q))
            => calls[p].lockValue # calls[q].lockValue

(* ---------------------------------------------------------------------- *)
(* C33                                                                     *)
(* ---------------------------------------------------------------------- *)
\* the key of the handle p carries the lease written for p
OwnLease(p) ==
    /\ redis[calls[p].lockKey] # NoLease
    /\ redis[calls[p].lockKey].value = calls[p].lockValue

\* the PEXPIRE of an extend of p is applied in this step
PexpireStep(p) == calls[p].pc = "pexpire" /\ calls'[p].pc = "held"

\* an extend of p returns false in this step
ExtendFalseStep(p) ==
    /\ calls[p].pc = "held"
    /\ calls'[p].extends = calls[p].extends + 1
    /\ calls'[p].pc = "held"

\* PEXPIRE meets a lease only if the lease carries the lockValue of the handle
PexpireOnOwnLease ==
    \A p \in CallIds :
        (PexpireStep(p) /\ redis[calls[p].lockKey] # NoLease) => OwnLease(p)

\* an extend that returns false leaves the store and the handle as they were
ExtendFalseChangesNothing ==
    \A p \in CallIds :
        ExtendFalseStep(p) => /\ redis' = redis
                              /\ calls'[p].expiresAt = calls[p].expiresAt

\* when an extend has returned, expiresAt of the handle is not later than the
\* instant the store drops the lease of the handle (now, if it has none)
ExpiresAtNotLate ==
    \A p \in CallIds :
        (PexpireStep(p) \/ ExtendFalseStep(p))
            => calls'[p].expiresAt <= IF OwnLease(p)' THEN redis'[calls[p].lockKey].at + Ttl
                                      ELSE now'

\* C33: extend changes the expiry of a lease only if the stored value is the
\* lockValue of the handle when the expiry is changed, otherwise it returns
\* false and changes nothing, and expiresAt of the handle is never later than
\* the expiry of the lease in the store.
C33_ExtendIsCompareAndSet ==
    [][PexpireOnOwnLease /\ ExtendFalseChangesNothing /\ ExpiresAtNotLate]_vars

(* ---------------------------------------------------------------------- *)
(* C34                                                                     *)
(* ---------------------------------------------------------------------- *)
\* C34: the version of a booking grows with every committed update of the
\* booking (cancel, reschedule) and never decreases.
C34_VersionGrowsOnUpdate ==
    [][\A b \in RowIds :
          /\ bookings'[b].version >= bookings[b].version
          /\ bookings'[b] # bookings[b] => bookings'[b].version > bookings[b].version]_vars

(* ---------------------------------------------------------------------- *)
(* C35                                                                     *)
(* ---------------------------------------------------------------------- *)
\* the call p runs the update statement of its transaction in this step
UpdateStep(p) == calls[p].pc = "txWrite" /\ calls'[p].pc # "txWrite"

\* C35: a row keeps its place (its id), its userId and its idempotencyKey; a
\* row changes only in the update of a cancelBooking or rescheduleBooking call
\* that names it; cancelBooking changes nothing but the status, and
\* rescheduleBooking nothing but startTime and endTime.
C35_UpdatesTouchOnlyTheirFields ==
    [][/\ Len(bookings') >= Len(bookings)
       /\ \A b \in RowIds :
            /\ bookings'[b].userId = bookings[b].userId
            /\ bookings'[b].idempotencyKey = bookings[b].idempotencyKey
            /\ bookings'[b] # bookings[b] =>
                 \E p \in CallIds :
                    /\ UpdateStep(p)
                    /\ calls[p].bookingId = b
                    /\ calls[p].op \in {"cancel", "reschedule"}
                    /\ calls[p].op = "cancel" =>
                          bookings'[b] = [bookings[b] EXCEPT !.status = "CANCELLED"]
                    /\ calls[p].op = "reschedule" =>
                          bookings'[b] = [bookings[b] EXCEPT !.startTime = calls[p].startTime,
                                                             !.endTime = calls[p].endTime]]_vars

\* a booking has been rescheduled and cancelled
C35_Witness ==
    \E p \in CallIds, q \in CallIds :
        /\ calls[p].op = "reschedule" /\ calls[p].resId \in RowIds
        /\ calls[q].op = "cancel" /\ calls[q].result = "OK"
        /\ calls[q].bookingId = calls[p].bookingId
        /\ bookings[calls[p].resId].status = "CANCELLED"
        /\ bookings[calls[p].resId].startTime = calls[p].startTime

(* ---------------------------------------------------------------------- *)
(* C36                                                                     *)
(* ---------------------------------------------------------------------- *)
\* C36: every booking of the store has startTime < endTime, whatever instants
\* the createBooking and rescheduleBooking calls made on the service carry.
C36_StartBeforeEnd ==
    \A b \in RowIds : bookings[b].startTime < bookings[b].endTime

(* ---------------------------------------------------------------------- *)
(* C37                                                                     *)
(* ---------------------------------------------------------------------- *)
\* the rescheduleBooking call p names an active booking of its user, the new
\* interval overlaps the interval the booking has now, and no other active
\* booking of the user overlaps the new interval
OverlapsOnlyItself(p) ==
    /\ calls[p].op = "reschedule"
    /\ calls[p].bookingId \in RowIds
    /\ ActiveOverlap(calls[p].bookingId, calls[p].userId, calls[p].startTime, calls[p].endTime)
    /\ \A b \in RowIds \ {calls[p].bookingId} :
          ~ActiveOverlap(b, calls[p].userId, calls[p].startTime, calls[p].endTime)

\* C37: the overlap query of rescheduleBooking leaves out the booking that is
\* rescheduled: a move to an interval that overlaps only the booking's own
\* interval is not rejected with TIME_SLOT_CONFLICT.
C37_RescheduleExcludesItself ==
    [][\A p \in CallIds :
          (OverlapsOnlyItself(p) /\ calls[p].pc = "txFind" /\ calls'[p] # calls[p])
              => /\ calls'[p].result # "TIME_SLOT_CONFLICT"
                 /\ calls'[p].pc = "txWrite"]_vars

\* such a move has passed the overlap query
C37_Witness ==
    \E p \in CallIds :
        /\ OverlapsOnlyItself(p)
        /\ calls[p].pc = "txWrite"
        /\ bookings[calls[p].bookingId].startTime # calls[p].startTime

(* ---------------------------------------------------------------------- *)
(* C38                                                                     *)
(* ---------------------------------------------------------------------- *)
\* the createBooking call p returns a booking in this step
CreateReturns(p) ==
    /\ calls'[p].op = "create"
    /\ calls'[p].result = "OK"
    /\ p \in CallIds => calls[p].result # "OK"

\* the booking returned to p carries what p asked for
ReturnedAsRequested(p) ==
    LET c == calls'[p]
        row == bookings'[c.resId]
    IN  /\ row.userId = c.userId
        /\ row.startTime = c.startTime
        /\ row.endTime = c.endTime
        /\ row.idempotencyKey = c.idempotencyKey
        /\ row.status = IF c.status # "undefined" THEN c.status ELSE "CONFIRMED"

\* C38, as stated: every createBooking call that returns a booking returns one
\* with the userId, startTime, endTime, idempotencyKey and status of the call
\* (CONFIRMED when the call gave no status).
C38_ReturnsRequested ==
    [][\A p \in 1..Len(calls') : CreateReturns(p) => ReturnedAsRequested(p)]_vars

\* C38, amended: the same of every createBooking call that returns the booking
\* it has inserted, that is whose idempotencyKey no booking carried before.
C38_InsertedAsRequested ==
    [][\A p \in CallIds :
          (CreateReturns(p) /\ calls[p].pc = "audit") => ReturnedAsRequested(p)]_vars

\* a call that gave the status PENDING has returned the booking it inserted
C38_Witness ==
    \E p \in CallIds :
        /\ calls[p].op = "create" /\ calls[p].pc = "done" /\ calls[p].result = "OK"
        /\ calls[p].status = "PENDING"
        /\ \A q \in 1..(p - 1) : calls[q].op = "create"
                                    => calls[q].idempotencyKey # calls[p].idempotencyKey
        /\ bookings[calls[p].resId].status = "PENDING"
        /\ bookings[calls[p].resId].idempotencyKey = calls[p].idempotencyKey

(* ---------------------------------------------------------------------- *)
(* C39                                                                     *)
(* ---------------------------------------------------------------------- *)
\* the handles acquire has returned
Handles == {p \in CallIds : calls[p].op = "lock" /\ calls[p].pc \notin {"set", "done"}}

\* no release() call is running on the handle p
Idle(p) == calls[p].pc = "held"

\* C39, as stated: the released flag of a handle is false until the first
\* release() call on it, true once that call is over and ever after, and
\* RedisLock.release is called at most once for a handle.
C39_ReleasedAfterFirstRelease ==
    [][\A p \in Handles :
          /\ calls[p].released => calls'[p].released
          /\ calls'[p].releases = 0 => ~calls'[p].released
          /\ (calls'[p].releases >= 1 /\ Idle(p)') => calls'[p].released
          /\ calls'[p].issued <= 1]_vars

\* a release() call on the handle p returns, or rejects, in this step
ReleaseReturns(p) == calls[p].pc \in {"relGet", "relDel"} /\ Idle(p)'
ReleaseRejects(p) == ReleaseReturns(p) /\ calls'[p].result = "REDIS_ERROR"

\* C39, amended: the flag is false until a release() call on the handle has
\* returned, and true from then on; a release() call that rejects leaves it
\* false; once the flag is true no release() call reaches RedisLock.release.
C39_ReleasedAfterReleaseReturned ==
    [][\A p \in Handles :
          /\ calls[p].released => calls'[p].released
          /\ calls'[p].releases = 0 => ~calls'[p].released
          /\ (ReleaseReturns(p) /\ ~ReleaseRejects(p)) => calls'[p].released
          /\ ReleaseRejects(p) => calls'[p].released = calls[p].released
          /\ (~calls[p].released /\ calls'[p].released) => ReleaseReturns(p)
          /\ calls[p].released => calls'[p].issued = calls[p].issued]_vars

\* release() has been called twice on a handle and has reached RedisLock.release once
C39_Witness ==
    \E p \in Handles :
        /\ calls[p].releases = 2
        /\ Idle(p)
        /\ calls[p].released
        /\ calls[p].issued = 1

====
